---- MODULE Spec2Model ----
(***************************************************************************)
(* Financial Goal Forecaster (src/streamlit_app.py).                       *)
(*                                                                         *)
(* The Streamlit script is re-executed from top to bottom on every user    *)
(* event; the only state that survives a run is the sidebar key and        *)
(* st.session_state.  One action of Spec is one complete script run,       *)
(* triggered by one event: a sidebar edit, a form submission, the          *)
(* "Project Goal" button or a chat input.  SpecEngine applies the two      *)
(* timeline computations to inputs drawn from bounded sets.                *)
(*                                                                         *)
(* Numbers.  Money amounts are Python floats in the source; here they are  *)
(* whole currency units, on which +, - and sum are exact.  The quotients   *)
(* of the timeline formulas are not exact in the source: every float       *)
(* operation rounds its result to the nearest representable value.  The    *)
(* model keeps that: a quotient is a fixed-point number in millionths,     *)
(* rounded to the nearest millionth (ties to even), where binary64 rounds  *)
(* to 53 significant bits.  The rounding cases of the source therefore     *)
(* occur in the model at inputs that are closer together by that ratio.    *)
(***************************************************************************)
EXTENDS Integers, Sequences, FiniteSets, TLC

VARIABLES
    openai_api_key,   \* TRUE iff the sidebar text input holds a non-empty key
    session_state,    \* st.session_state: the summary, the flag, the transcript
    inputs,           \* the twelve number_input values of the latest submission
    event,            \* the event that triggered the latest script run
    rendered,         \* the widgets the latest script run rendered
    exception,        \* the exception that ended the latest script run, or "none"
    goal_calc         \* the timelines computed by the latest run or call, if any

vars == <<openai_api_key, session_state, inputs, event, rendered, exception, goal_calc>>

----------------------------------------------------------------------------
(* Bounds of the model *)

MaxMessages == 5      \* longest transcript explored
NumPrompts == 1       \* distinct chat prompts a user may type
MaxGoal == 40         \* engine inputs: savings goals up to MaxGoal (and down to -MaxGoal)
MaxNet == 6           \* engine inputs: net balances up to MaxNet (and down to -MaxNet)

----------------------------------------------------------------------------
(* Fixed-point arithmetic *)

Ppm == 1000 * 1000

\* a / b rounded to the nearest integer, ties to even, for b # 0
RoundDiv(a, b) ==
    LET n == IF b > 0 THEN a ELSE -a
        d == IF b > 0 THEN b ELSE -b
        q == n \div d
        r == n % d
    IN  IF 2 * r > d \/ (2 * r = d /\ q % 2 = 1) THEN q + 1 ELSE q

\* (1 + 0.099)**(1/12) - 1 = 0.0078977469..., in millionths
MonthlyRatePpm == 7898

\* p * (1 + monthly_rate) for a fixed-point p >= 0, rounded to the nearest
\* millionth; the product p * MonthlyRatePpm is formed in three-digit limbs
\* so that no intermediate exceeds 32 bits
Grow(p) ==
    LET A == (p \div 1000) * MonthlyRatePpm
        B == (p % 1000) * MonthlyRatePpm
        C == A + (B \div 1000)
        whole == C \div 1000
        frac == (C % 1000) * 1000 + (B % 1000)
    IN  p + (IF frac > 500000 \/ (frac = 500000 /\ whole % 2 = 1)
             THEN whole + 1 ELSE whole)

----------------------------------------------------------------------------
(* The engine: timelines *)

Timeline(y, m) == [raised |-> "none", years |-> y, months |-> m]
Raise(e) == [raised |-> e, years |-> 0, months |-> 0]
NotCalled == Raise("not_called")

\* (savings_goal * monthly_rate / net_balance) + 1, in millionths
LogArg(savings_goal, net_balance) ==
    RoundDiv(savings_goal * MonthlyRatePpm, net_balance) + Ppm

RECURSIVE MonthsUp(_, _, _)
\* the largest k with (1 + monthly_rate)^k <= arg, for arg >= 1; p is (1 + monthly_rate)^k
MonthsUp(arg, p, k) ==
    IF Grow(p) > arg THEN k ELSE MonthsUp(arg, Grow(p), k + 1)

RECURSIVE MonthsDown(_, _)
\* minus the least j with arg * (1 + monthly_rate)^j >= 1, for 0 < arg < 1
MonthsDown(a, j) ==
    IF a >= Ppm THEN -j ELSE MonthsDown(Grow(a), j + 1)

WholeMonthsCeiling(arg) ==
    (IF arg >= Ppm THEN MonthsUp(arg, Ppm, 0) ELSE MonthsDown(arg, 0)) + 1

\* floor(math.log(arg) / math.log(1 + monthly_rate)) for arg > 0: the whole
\* months of n_months_invested (its fraction reaches neither years nor months)
WholeMonthsInvested(arg) ==
    IF arg >= Ppm THEN MonthsUp(arg, Ppm, 0) ELSE MonthsDown(arg, 0)

SplitMonthsDecimal(n) == Timeline(n \div 10, n % 10)

\* int(n // 12), int(n % 12)
SplitMonths(n) == Timeline(n \div 12, n % 12)

\* the body of the try block
TryInvestment(savings_goal, net_balance) ==
    IF net_balance = 0 THEN Raise("ZeroDivisionError")
    ELSE IF LogArg(savings_goal, net_balance) <= 0 THEN Raise("ValueError")
    ELSE IF MonthlyRatePpm = 0 THEN Raise("ZeroDivisionError")
    ELSE SplitMonths(WholeMonthsInvested(LogArg(savings_goal, net_balance)))

DegenerateRateOnly(net_balance) == MonthlyRatePpm = 0

\* if monthly_rate == 0 or net_balance <= 0
Degenerate(net_balance) == MonthlyRatePpm = 0 \/ net_balance <= 0

get_investment_timeline(savings_goal, net_balance) ==
    IF Degenerate(net_balance) THEN Timeline(0, 0)
    ELSE LET r == TryInvestment(savings_goal, net_balance)
         IN  IF r.raised \in {"ValueError", "ZeroDivisionError"} THEN Timeline(0, 0) ELSE r

\* savings_goal / net_balance for net_balance # 0: the whole months of the
\* rounded quotient (the fraction, in millionths, is rounded first and may carry)
SimpleTotalMonths(savings_goal, net_balance) ==
    LET n == IF net_balance > 0 THEN savings_goal ELSE -savings_goal
        d == IF net_balance > 0 THEN net_balance ELSE -net_balance
        d1 == ((n % d) * 1000) \div d
        r1 == ((n % d) * 1000) % d
        frac == d1 * 1000 + RoundDiv(r1 * 1000, d)
    IN  IF frac >= Ppm THEN (n \div d) + 1 ELSE n \div d

\* simple_total_months, simple_years, simple_months
SimpleTimeline(savings_goal, net_balance) ==
    IF net_balance = 0 THEN Raise("ZeroDivisionError")
    ELSE SplitMonths(SimpleTotalMonths(savings_goal, net_balance))

NoCalc ==
    [fn |-> "none", savings_goal |-> 0, net_balance |-> 0,
     simple |-> NotCalled, invest |-> NotCalled]

\* the button's computation: both timelines
ProjectGoalTimelines(savings_goal, net_balance) ==
    LET simple == SimpleTimeline(savings_goal, net_balance)
    IN  [fn |-> "project", savings_goal |-> savings_goal, net_balance |-> net_balance,
         simple |-> simple,
         invest |-> IF simple.raised # "none" THEN NotCalled
                    ELSE get_investment_timeline(savings_goal, net_balance)]

\* get_investment_timeline called on its own
DirectCall(savings_goal, net_balance) ==
    [fn |-> "get_investment_timeline", savings_goal |-> savings_goal,
     net_balance |-> net_balance, simple |-> NotCalled,
     invest |-> get_investment_timeline(savings_goal, net_balance)]

----------------------------------------------------------------------------
(* The budget form *)

ExpenseFields ==
    <<"housing", "utilities", "internet", "phone", "groceries",
      "transportation", "insurance", "subscriptions", "dining_out", "other">>

Fields == {"primary_income", "additional_income"} \cup {ExpenseFields[i] : i \in 1..Len(ExpenseFields)}

\* value= of each number_input
Defaults ==
    [primary_income |-> 4000, additional_income |-> 200,
     housing |-> 1500, utilities |-> 150, internet |-> 60, phone |-> 70,
     groceries |-> 400, transportation |-> 150, insurance |-> 200,
     subscriptions |-> 40, dining_out |-> 250, other |-> 150]

\* step= of each number_input
Steps ==
    [primary_income |-> 100, additional_income |-> 50,
     housing |-> 50, utilities |-> 10, internet |-> 5, phone |-> 5,
     groceries |-> 25, transportation |-> 10, insurance |-> 10,
     subscriptions |-> 5, dining_out |-> 25, other |-> 25]

\* what a user enters in one field: min_value (0), one step above the default
\* and, for the primary income, the amount that balances the default expenses
Entered(f) ==
    {0, Defaults[f] + Steps[f]} \cup (IF f = "primary_income" THEN {2770} ELSE {})

\* the submissions explored: the defaults, and the defaults with one field edited
InputChoices ==
    {Defaults} \cup UNION {{[Defaults EXCEPT ![f] = v] : v \in Entered(f)} : f \in Fields}

RECURSIVE sum(_)
\* Python's sum() of a list
sum(list) == IF list = <<>> THEN 0 ELSE sum(SubSeq(list, 1, Len(list) - 1)) + list[Len(list)]

ExpenseListWithoutOther(in) ==
    <<in.housing, in.utilities, in.internet, in.phone, in.groceries,
      in.transportation, in.insurance, in.subscriptions, in.dining_out>>

\* the list summed into total_expenses
ExpenseList(in) ==
    <<in.housing, in.utilities, in.internet, in.phone, in.groceries,
      in.transportation, in.insurance, in.subscriptions, in.dining_out, in.other>>

SubmittedBlockMerging(ss, in) ==
    LET total_income == ss.total_income + in.primary_income + in.additional_income
        total_expenses == ss.total_expenses + sum(ExpenseList(in))
    IN  [total_income |-> total_income,
         total_expenses |-> total_expenses,
         net_balance |-> total_income - total_expenses,
         budget_calculated |-> TRUE,
         messages |-> <<>>]

SubmittedBlockKeepingChat(ss, in) ==
    LET total_income == in.primary_income + in.additional_income
        total_expenses == sum(ExpenseList(in))
    IN  [total_income |-> total_income,
         total_expenses |-> total_expenses,
         net_balance |-> total_income - total_expenses,
         budget_calculated |-> TRUE,
         messages |-> ss.messages]

\* if submitted: the five assignments to st.session_state
SubmittedBlock(ss, in) ==
    LET total_income == in.primary_income + in.additional_income
        total_expenses == sum(ExpenseList(in))
    IN  [total_income |-> total_income,
         total_expenses |-> total_expenses,
         net_balance |-> total_income - total_expenses,
         budget_calculated |-> TRUE,
         messages |-> <<>>]

----------------------------------------------------------------------------
(* The transcript *)

Message(role, kind, about) == [role |-> role, content |-> [kind |-> kind, about |-> about]]

\* the completion for initial_prompt, which embeds the three totals
OpeningReply(ss) ==
    Message("assistant", "opening", <<ss.total_income, ss.total_expenses, ss.net_balance>>)

\* goal_prompt, which embeds savings_goal
GoalPrompt(savings_goal) == Message("user", "goal_prompt", <<savings_goal>>)

\* the text typed into st.chat_input
ChatPrompt(prompt) == Message("user", "chat", <<prompt>>)

\* the completion for [system_prompt] + st.session_state.messages: it answers
\* the last message of the transcript
FullResponse(messages) ==
    Message("assistant", "reply", messages[Len(messages)].content.about)

AppendMessage(ss, m) == [ss EXCEPT !.messages = Append(ss.messages, m)]

----------------------------------------------------------------------------
(* One script run *)

\* what a run leaves behind: the session state, the widgets it rendered, the
\* exception that ended it and what it computed
Result(ss, widgets, exc, calc) ==
    [session_state |-> ss, rendered |-> widgets, exception |-> exc, goal_calc |-> calc]

Event(type, in, savings_goal, prompt) ==
    [type |-> type, inputs |-> in, savings_goal |-> savings_goal, prompt |-> prompt]

NoEvent == Event("rerun", Defaults, 0, 0)

GoalToolShownAtZero(ss) == ss.net_balance >= 0

\* if st.session_state.net_balance > 0
GoalToolShown(ss) == ss.net_balance > 0

\* the widgets rendered by a run that reaches st.chat_input
AllWidgets(ss) == {"form", "chat"} \cup (IF GoalToolShown(ss) THEN {"goal"} ELSE {})

ChatInputWithoutReply(ss, ev, ai, calc) ==
    IF ev.type # "chat" THEN Result(ss, AllWidgets(ss), "none", calc)
    ELSE Result(AppendMessage(ss, ChatPrompt(ev.prompt)), AllWidgets(ss), "none", calc)

\* if prompt := st.chat_input(...)
ChatInput(ss, ev, ai, calc) ==
    IF ev.type # "chat" THEN Result(ss, AllWidgets(ss), "none", calc)
    ELSE LET asked == AppendMessage(ss, ChatPrompt(ev.prompt))
         IN  IF ai.reply
             THEN Result(AppendMessage(asked, FullResponse(asked.messages)),
                         AllWidgets(ss), "none", calc)
             ELSE Result(asked, AllWidgets(ss), "APIError", calc)

RECURSIVE ScriptRun(_, _, _, _)
\* the script from the form down; ai says which completion calls return
ScriptRun(ss0, ev, ai, calc) ==
    LET ss1 == IF ev.type = "submit" THEN SubmittedBlock(ss0, ev.inputs) ELSE ss0
    IN  IF ~ss1.budget_calculated THEN Result(ss1, {"form"}, "none", calc)
        ELSE IF ss1.messages = <<>> /\ ~ai.opening
             THEN Result(ss1, {"form"}, "APIError", calc)
        ELSE LET ss2 == IF ss1.messages = <<>>
                        THEN AppendMessage(ss1, OpeningReply(ss1)) ELSE ss1
             IN  IF GoalToolShown(ss2) /\ ev.type = "goal"
                 THEN LET c == ProjectGoalTimelines(ev.savings_goal, ss2.net_balance)
                          asked == AppendMessage(ss2, GoalPrompt(ev.savings_goal))
                      IN  IF c.simple.raised # "none"
                          THEN Result(ss2, {"form", "goal"}, c.simple.raised, c)
                          ELSE IF ~ai.reply
                          THEN Result(asked, {"form", "goal"}, "APIError", c)
                          ELSE ScriptRun(AppendMessage(asked, FullResponse(asked.messages)),
                                         NoEvent, ai, c)
                 ELSE ChatInput(ss2, ev, ai, calc)

----------------------------------------------------------------------------
(* The application *)

AIOutcomes == [opening : BOOLEAN, reply : BOOLEAN]
AIReplies == [opening |-> TRUE, reply |-> TRUE]

\* savings goals entered in the goal tool
GoalChoices == {0, 20000}

EmptySession ==
    [total_income |-> 0, total_expenses |-> 0, net_balance |-> 0,
     budget_calculated |-> FALSE, messages |-> <<>>]

Init ==
    /\ openai_api_key = FALSE
    /\ session_state = EmptySession
    /\ inputs = Defaults
    /\ event = "none"
    /\ rendered = {}
    /\ exception = "none"
    /\ goal_calc = NoCalc

Leave(ev, res) ==
    /\ event' = ev.type
    /\ session_state' = res.session_state
    /\ rendered' = res.rendered
    /\ exception' = res.exception
    /\ goal_calc' = res.goal_calc

\* the sidebar key is edited: without a key the script stops at st.info
SetApiKey(key, ai) ==
    /\ openai_api_key' = key
    /\ IF key THEN Leave(NoEvent, ScriptRun(session_state, NoEvent, ai, NoCalc))
       ELSE Leave(NoEvent, Result(session_state, {}, "none", NoCalc))
    /\ UNCHANGED inputs

\* "Calculate Budget & Start Chat"
Submit(in, ai) ==
    /\ openai_api_key
    /\ "form" \in rendered
    /\ inputs' = in
    /\ Leave(Event("submit", in, 0, 0),
             ScriptRun(session_state, Event("submit", in, 0, 0), ai, NoCalc))
    /\ UNCHANGED openai_api_key

\* "Project Goal & Discuss with AI"
ProjectGoal(savings_goal, ai) ==
    /\ openai_api_key
    /\ "goal" \in rendered
    /\ Len(session_state.messages) + 2 <= MaxMessages
    /\ Leave(Event("goal", inputs, savings_goal, 0),
             ScriptRun(session_state, Event("goal", inputs, savings_goal, 0), ai, NoCalc))
    /\ UNCHANGED <<openai_api_key, inputs>>

\* a prompt is sent from the chat input
Chat(prompt, ai) ==
    /\ openai_api_key
    /\ "chat" \in rendered
    /\ Len(session_state.messages) + 2 <= MaxMessages
    /\ Leave(Event("chat", inputs, 0, prompt),
             ScriptRun(session_state, Event("chat", inputs, 0, prompt), ai, NoCalc))
    /\ UNCHANGED <<openai_api_key, inputs>>

Step(ai) ==
    \/ \E key \in BOOLEAN : SetApiKey(key, ai)
    \/ \E in \in InputChoices : Submit(in, ai)
    \/ \E savings_goal \in GoalChoices : ProjectGoal(savings_goal, ai)
    \/ \E prompt \in 1..NumPrompts : Chat(prompt, ai)

Next == \E ai \in AIOutcomes : Step(ai)

Spec == Init /\ [][Next]_vars

\* the application while every completion call returns a reply
NextAIReplies == Step(AIReplies)

SpecAIReplies == Init /\ [][NextAIReplies]_vars

----------------------------------------------------------------------------
(* The engine on its own *)

\* pairs <<savings_goal, net_balance>> around the default budget's balance and
\* around a balance large enough for a quotient to round
NearPairs == {<<nb + d, nb>> : nb \in {1230, 20000}, d \in {-1, 0, 1}} \cup {<<20000, 1230>>}

ProjectInputs == ((0..MaxGoal) \X (1..MaxNet)) \cup NearPairs

CallInputs ==
    ((-MaxGoal..MaxGoal) \X (-MaxNet..MaxNet)) \cup NearPairs
        \cup {<<20000, 0>>, <<20000, -1230>>}

\* the inputs of one call, not yet made
Pending(savings_goal, net_balance) ==
    [NoCalc EXCEPT !.savings_goal = savings_goal, !.net_balance = net_balance]

InitEngine ==
    /\ openai_api_key = FALSE
    /\ session_state = EmptySession
    /\ inputs = Defaults
    /\ event = "none"
    /\ rendered = {}
    /\ exception = "none"
    /\ goal_calc \in {Pending(p[1], p[2]) : p \in CallInputs}

\* the caller's computation, which it gates on net_balance > 0
Project ==
    /\ goal_calc.fn = "none"
    /\ <<goal_calc.savings_goal, goal_calc.net_balance>> \in ProjectInputs
    /\ goal_calc' = ProjectGoalTimelines(goal_calc.savings_goal, goal_calc.net_balance)
    /\ UNCHANGED <<openai_api_key, session_state, inputs, event, rendered, exception>>

\* get_investment_timeline invoked directly
Call ==
    /\ goal_calc.fn = "none"
    /\ goal_calc' = DirectCall(goal_calc.savings_goal, goal_calc.net_balance)
    /\ UNCHANGED <<openai_api_key, session_state, inputs, event, rendered, exception>>

NextEngine == Project \/ Call

SpecEngine == InitEngine /\ [][NextEngine]_vars

----------------------------------------------------------------------------
(* Properties *)

Summary(ss) == <<ss.total_income, ss.total_expenses, ss.net_balance>>

TotalMonths(t) == 12 * t.years + t.months

Roles(messages) == [i \in 1..Len(messages) |-> messages[i].role]

\* C1: after a form submission whose twelve fields are all >= 0, the stored
\* total_income is primary_income + additional_income, the stored
\* total_expenses is the sum of exactly the ten expense fields, net_balance is
\* their difference and both totals are >= 0; the default form gives 4200,
\* 2970 and 1230.
C1_SubmissionSummary ==
    (event = "submit" /\ \A f \in Fields : inputs[f] >= 0) =>
        /\ session_state.total_income = inputs.primary_income + inputs.additional_income
        /\ session_state.total_expenses =
               inputs.housing + inputs.utilities + inputs.internet + inputs.phone
               + inputs.groceries + inputs.transportation + inputs.insurance
               + inputs.subscriptions + inputs.dining_out + inputs.other
        /\ session_state.net_balance =
               session_state.total_income - session_state.total_expenses
        /\ session_state.total_income >= 0
        /\ session_state.total_expenses >= 0
        /\ (inputs = Defaults => Summary(session_state) = <<4200, 2970, 1230>>)

C1_Witness ==
    /\ event = "submit"
    /\ inputs = Defaults
    /\ Summary(session_state) = <<4200, 2970, 1230>>

\* C2: a run computes a goal projection only while the stored net_balance is
\* > 0: the division savings_goal / net_balance is done with that positive
\* balance and raises nothing, and get_investment_timeline is then called.
C2_ProjectionGated ==
    goal_calc.fn = "project" =>
        /\ session_state.net_balance > 0
        /\ goal_calc.net_balance = session_state.net_balance
        /\ goal_calc.simple.raised = "none"
        /\ goal_calc.invest.raised = "none"

C2_Witness ==
    /\ event = "goal"
    /\ goal_calc.fn = "project"
    /\ goal_calc.net_balance = 1230
    /\ goal_calc.savings_goal = 20000

\* C3: for net_balance > 0 and savings_goal > 0 the invested timeline, in
\* total months, is never longer than the simple timeline.
C3_InvestedNeverLonger ==
    (goal_calc.fn = "project" /\ goal_calc.savings_goal > 0 /\ goal_calc.net_balance > 0) =>
        TotalMonths(goal_calc.invest) <= TotalMonths(goal_calc.simple)

\* C4: for net_balance > 0 and savings_goal = 0 both timelines are (0, 0).
C4_ZeroGoal ==
    (goal_calc.fn = "project" /\ goal_calc.savings_goal = 0 /\ goal_calc.net_balance > 0) =>
        /\ goal_calc.simple = Timeline(0, 0)
        /\ goal_calc.invest = Timeline(0, 0)

C4_Witness ==
    /\ goal_calc.fn = "project"
    /\ goal_calc.savings_goal = 0
    /\ goal_calc.net_balance = MaxNet
    /\ goal_calc.invest = Timeline(0, 0)

\* C5: get_investment_timeline called directly with net_balance <= 0 returns
\* (0, 0) as a value, whatever the savings goal: nothing is raised and the
\* timeline is not negative.
C5_DirectCallDegenerate ==
    (goal_calc.fn = "get_investment_timeline" /\ goal_calc.net_balance <= 0) =>
        goal_calc.invest = Timeline(0, 0)

C5_Witness ==
    /\ goal_calc.fn = "get_investment_timeline"
    /\ goal_calc.net_balance = -1230
    /\ goal_calc.savings_goal = 20000
    /\ goal_calc.invest = Timeline(0, 0)

\* C6: a failure of the completion call is caught by the application: it never
\* ends a script run as an exception.
C6_AIFailureCaught == exception # "APIError"

\* C7: a submission overwrites total_income, total_expenses and net_balance
\* with the totals of its own inputs alone, and every other run (a goal
\* projection, a chat input, a rerun) leaves the three and the inputs they
\* came from unchanged.
C7_SummaryOfLatestSubmission ==
    [][/\ event' = "submit" =>
              Summary(session_state') =
                   <<inputs'.primary_income + inputs'.additional_income,
                     sum(ExpenseList(inputs')),
                     inputs'.primary_income + inputs'.additional_income
                         - sum(ExpenseList(inputs'))>>
       /\ event' # "submit" =>
              /\ Summary(session_state') = Summary(session_state)
              /\ inputs' = inputs]_vars

C7_Witness ==
    /\ event = "chat"
    /\ inputs # Defaults
    /\ \E i \in 1..Len(session_state.messages) :
           session_state.messages[i].content.kind = "goal_prompt"
    /\ Summary(session_state) =
           <<inputs.primary_income + inputs.additional_income,
             sum(ExpenseList(inputs)),
             inputs.primary_income + inputs.additional_income - sum(ExpenseList(inputs))>>

\* C8: each timeline splits its total months t >= 0 as years = floor(t / 12)
\* and months = floor(t mod 12): 0 <= months <= 11 and 12 * years + months =
\* floor(t); a goal of 20000 at a balance of 1230 gives the simple timeline
\* (1 year, 4 months).
C8_YearsAndMonths ==
    (goal_calc.fn = "project" /\ goal_calc.savings_goal >= 0 /\ goal_calc.net_balance > 0) =>
        /\ goal_calc.simple.months \in 0..11
        /\ TotalMonths(goal_calc.simple) =
               SimpleTotalMonths(goal_calc.savings_goal, goal_calc.net_balance)
        /\ goal_calc.invest.months \in 0..11
        /\ TotalMonths(goal_calc.invest) =
               WholeMonthsInvested(LogArg(goal_calc.savings_goal, goal_calc.net_balance))
        /\ (goal_calc.savings_goal = 20000 /\ goal_calc.net_balance = 1230 =>
               goal_calc.simple = Timeline(1, 4))

C8_Witness ==
    /\ goal_calc.fn = "project"
    /\ goal_calc.savings_goal = 20000
    /\ goal_calc.net_balance = 1230
    /\ goal_calc.simple = Timeline(1, 4)
    /\ goal_calc.invest = Timeline(1, 3)

\* C9: whenever a goal projection or a chat input has been handled, or can be
\* (its widget is on the page), the transcript is non-empty and starts with
\* the assistant's opening message for the totals of the latest submission;
\* a submission leaves nothing in the transcript but that opening message.
C9_OpeningMessageFirst ==
    /\ (event \in {"goal", "chat"} \/ "goal" \in rendered \/ "chat" \in rendered) =>
           /\ session_state.messages # <<>>
           /\ session_state.messages[1] = OpeningReply(session_state)
    /\ event = "submit" => Len(session_state.messages) <= 1

C9_Witness ==
    /\ event = "goal"
    /\ inputs # Defaults
    /\ Len(session_state.messages) = 5
    /\ session_state.messages[1] = OpeningReply(session_state)

\* C10: while every completion call returns a reply, the transcript after each
\* script run alternates assistant, user, assistant, ... from an assistant
\* message to an assistant message; a goal projection or a chat input appends
\* one user message and then one assistant message to it, and a rerun appends
\* nothing.
C10_AlternatingTranscript ==
    /\ [](session_state.budget_calculated =>
             /\ Len(session_state.messages) % 2 = 1
             /\ \A i \in 1..Len(session_state.messages) :
                    session_state.messages[i].role =
                        (IF i % 2 = 1 THEN "assistant" ELSE "user"))
    /\ [][/\ event' \in {"goal", "chat"} =>
                 /\ Len(session_state'.messages) = Len(session_state.messages) + 2
                 /\ SubSeq(session_state'.messages, 1, Len(session_state.messages))
                        = session_state.messages
                 /\ SubSeq(Roles(session_state'.messages),
                           Len(session_state.messages) + 1,
                           Len(session_state.messages) + 2) = <<"user", "assistant">>
          /\ event' = "rerun" => session_state'.messages = session_state.messages]_vars

C10_Witness ==
    /\ event = "chat"
    /\ Roles(session_state.messages) = <<"assistant", "user", "assistant", "user", "assistant">>
    /\ session_state.messages[2].content.kind = "goal_prompt"
    /\ session_state.messages[4].content.kind = "chat"

====
